------------------------------ MODULE Spec2Model ------------------------------
(***************************************************************************)
(* Security-scan analysis (analyze_security.py) and quality gate           *)
(* (quality_gate.py): extraction of SonarCloud issues and ZAP alerts,      *)
(* severity normalisation, the two CSV tables, and the gate decision.      *)
(*                                                                         *)
(* Python strings are sequences of one-character strings, so that lower(), *)
(* upper(), substring tests, str(), int() and sorted() are computed and    *)
(* not assumed.  Python/JSON values are tagged records.                    *)
(***************************************************************************)
EXTENDS Integers, Sequences, FiniteSets, TLC

(***************************************************************************)
(* Strings                                                                 *)
(***************************************************************************)

LowerLetters == <<"a", "b", "c", "d", "e", "f", "g", "h", "i", "j", "k", "l", "m", "n", "o",
    "p", "q", "r", "s", "t", "u", "v", "w", "x", "y", "z">>
UpperLetters == <<"A", "B", "C", "D", "E", "F", "G", "H", "I", "J", "K", "L", "M", "N", "O",
    "P", "Q", "R", "S", "T", "U", "V", "W", "X", "Y", "Z">>
Digits == <<"0", "1", "2", "3", "4", "5", "6", "7", "8", "9">>
\* the characters of the model in code-point order (newline, then printable ASCII but the backquote)
CharOrder == <<"\n", " ", "!", "\"", "#", "$", "%", "&", "'", "(", ")", "*", "+", ",", "-",
    ".", "/", "0", "1", "2", "3", "4", "5", "6", "7", "8", "9", ":", ";", "<", "=", ">", "?",
    "@", "A", "B", "C", "D", "E", "F", "G", "H", "I", "J", "K", "L", "M", "N", "O", "P", "Q",
    "R", "S", "T", "U", "V", "W", "X", "Y", "Z", "[", "\\", "]", "^", "_", "a", "b", "c", "d",
    "e", "f", "g", "h", "i", "j", "k", "l", "m", "n", "o", "p", "q", "r", "s", "t", "u", "v",
    "w", "x", "y", "z", "{", "|", "}", "~">>

IndexOf(c, seq) == CHOOSE i \in 1..Len(seq) : seq[i] = c

InSeq(c, seq) == \E i \in 1..Len(seq) : seq[i] = c

Ord(c) == IndexOf(c, CharOrder)

LowerChar(c) == IF InSeq(c, UpperLetters) THEN LowerLetters[IndexOf(c, UpperLetters)] ELSE c

UpperChar(c) == IF InSeq(c, LowerLetters) THEN UpperLetters[IndexOf(c, LowerLetters)] ELSE c

\* str.lower()
Lower(s) == [i \in 1..Len(s) |-> LowerChar(s[i])]

\* str.upper()
Upper(s) == [i \in 1..Len(s) |-> UpperChar(s[i])]

\* p in s (substring test)
Contains(s, p) ==
    \E i \in 0..(Len(s) - Len(p)) : \A j \in 1..Len(p) : s[i + j] = p[j]

\* str.replace(a, b) for one-character a and b
ReplaceChar(s, a, b) == [i \in 1..Len(s) |-> IF s[i] = a THEN b ELSE s[i]]

\* s < t for str (lexicographic by code point)
RECURSIVE StrLess(_, _)
StrLess(s, t) ==
    IF t = <<>> THEN FALSE
    ELSE IF s = <<>> THEN TRUE
    ELSE IF s[1] # t[1] THEN Ord(s[1]) < Ord(t[1])
    ELSE StrLess(Tail(s), Tail(t))

\* str(n) for int n
RECURSIVE NatToStr(_)
NatToStr(n) ==
    IF n < 10 THEN <<Digits[n + 1]>>
    ELSE NatToStr(n \div 10) \o <<Digits[(n % 10) + 1]>>

IntToStr(n) == IF n < 0 THEN <<"-">> \o NatToStr(0 - n) ELSE NatToStr(n)

IsDigits(s) == s # <<>> /\ \A i \in 1..Len(s) : InSeq(s[i], Digits)

RECURSIVE DigitsToNat(_)
DigitsToNat(s) ==
    IF s = <<>> THEN 0
    ELSE 10 * DigitsToNat(SubSeq(s, 1, Len(s) - 1)) + (IndexOf(s[Len(s)], Digits) - 1)

S_sonarcloud == <<"s", "o", "n", "a", "r", "c", "l", "o", "u", "d">>
S_zap == <<"z", "a", "p">>
S_UNKNOWN == <<"U", "N", "K", "N", "O", "W", "N">>
S_RESOLVED == <<"R", "E", "S", "O", "L", "V", "E", "D">>
S_CLOSED == <<"C", "L", "O", "S", "E", "D">>
S_HIGH == <<"H", "I", "G", "H">>
S_MEDIUM == <<"M", "E", "D", "I", "U", "M">>
S_LOW == <<"L", "O", "W">>
S_INFO == <<"I", "N", "F", "O">>
S_CRITICAL == <<"C", "R", "I", "T", "I", "C", "A", "L">>
S_BLOCKER == <<"B", "L", "O", "C", "K", "E", "R">>
S_MAJOR == <<"M", "A", "J", "O", "R">>
S_high == <<"h", "i", "g", "h">>
S_medium == <<"m", "e", "d", "i", "u", "m">>
S_low == <<"l", "o", "w">>
S_inform == <<"i", "n", "f", "o", "r", "m">>
S_None == <<"N", "o", "n", "e">>
MSG_ServerLeaks == <<"S", "e", "r", "v", "e", "r", " ", "L", "e", "a", "k", "s", " ", "V", "e",
    "r", "s", "i", "o", "n", " ", "I", "n", "f", "o", "r", "m", "a", "t", "i", "o", "n", " ",
    "v", "i", "a", " ", "\"", "S", "e", "r", "v", "e", "r", "\"", " ", "H", "T", "T", "P", " ",
    "R", "e", "s", "p", "o", "n", "s", "e", " ", "H", "e", "a", "d", "e", "r", " ", "F", "i",
    "e", "l", "d">>
MSG_CSP == <<"C", "S", "P", ":", " ", "F", "a", "i", "l", "u", "r", "e", " ", "t", "o", " ",
    "D", "e", "f", "i", "n", "e", " ", "D", "i", "r", "e", "c", "t", "i", "v", "e", " ", "w",
    "i", "t", "h", " ", "N", "o", " ", "F", "a", "l", "l", "b", "a", "c", "k">>
MSG_GetForPost == <<"G", "E", "T", " ", "f", "o", "r", " ", "P", "O", "S", "T">>
T_OPEN == <<"O", "P", "E", "N">>
T_MINOR == <<"M", "I", "N", "O", "R">>
T_critical == <<"c", "r", "i", "t", "i", "c", "a", "l">>
T_k1 == <<"k", "1">>
T_k2 == <<"k", "2">>
T_k3 == <<"k", "3">>
T_path == <<"a", "p", "p", ".", "t", "s">>
T_rule == <<"t", "s", ":", "S", "1">>
T_High == <<"H", "i", "g", "h">>
T_HighConfirmed == <<"H", "i", "g", "h", " ", "(", "c", "o", "n", "f", "i", "r", "m", "e", "d",
    ")">>
T_LowHigh == <<"L", "o", "w", " ", "(", "H", "i", "g", "h", ")">>
T_MediumLow == <<"M", "e", "d", "i", "u", "m", " ", "(", "L", "o", "w", ")">>
T_Low == <<"L", "o", "w">>
T_Informational == <<"I", "n", "f", "o", "r", "m", "a", "t", "i", "o", "n", "a", "l">>
T_Severe == <<"S", "e", "v", "e", "r", "e">>
T_SqlInjection == <<"S", "Q", "L", " ", "I", "n", "j", "e", "c", "t", "i", "o", "n">>
T_getforpost == <<"g", "e", "t", " ", "f", "o", "r", " ", "p", "o", "s", "t">>
T_GetForNlPost == <<"G", "E", "T", " ", "f", "o", "r", "\n", "P", "O", "S", "T">>
T_XGetForPost == <<"R", "i", "s", "k", "y", " ", "G", "E", "T", " ", "f", "o", "r", " ", "P",
    "O", "S", "T", " ", "u", "s", "e">>
T_urlA == <<"h", "t", "t", "p", ":", "/", "/", "a", "/">>
T_urlB == <<"h", "t", "t", "p", ":", "/", "/", "b", "/">>
T_plugin == <<"1", "0", "0", "3", "6">>
T_HIGH_upper == <<"H", "I", "G", "H", " ", "R", "I", "S", "K">>
T_Seven == <<"7">>

(***************************************************************************)
(* Python / JSON values                                                    *)
(***************************************************************************)
None == [t |-> "none"]

Str(s) == [t |-> "str", s |-> s]

PyInt(n) == [t |-> "int", n |-> n]

List(xs) == [t |-> "list", items |-> xs]

\* a dict: d maps the keys that are present to their values
Dict(d) == [t |-> "dict", d |-> d]

NoKeys == [k \in {} |-> None]

IsStr(v) == v.t = "str"

IsList(v) == v.t = "list"

IsDict(v) == v.t = "dict"

\* bool(v)
Truthy(v) ==
    CASE v.t = "none" -> FALSE
      [] v.t = "str" -> v.s # <<>>
      [] v.t = "int" -> v.n # 0
      [] v.t = "list" -> v.items # <<>>
      [] v.t = "dict" -> DOMAIN v.d # {}

\* a or b
PyOr(a, b) == IF Truthy(a) THEN a ELSE b

\* dict.get(k, default)
Get(v, k, default) == IF k \in DOMAIN v.d THEN v.d[k] ELSE default

\* str(v), also the conversion of an f-string field
StrOf(v) ==
    CASE v.t = "none" -> S_None
      [] v.t = "str" -> v.s
      [] v.t = "int" -> IntToStr(v.n)

\* collections.Counter: a function from the keys counted so far to their counts
EmptyCounter == [k \in {} |-> 0]

\* counts[k] += n
CounterAdd(c, k, n) ==
    IF k \in DOMAIN c THEN [c EXCEPT ![k] = @ + n] ELSE c @@ (k :> n)

\* counts.get(k, 0)
CounterGet(c, k) == IF k \in DOMAIN c THEN c[k] ELSE 0

\* a report or table that does not exist on disk (os.path.exists is false)
Absent == [t |-> "absent"]

\* an uncaught exception: the process ends with a traceback
Raised == [raised |-> TRUE]

(***************************************************************************)
(* analyze_security.py: SonarCloud loader                                  *)
(***************************************************************************)
\* key -> path map built from data["components"]
RECURSIVE CompPaths(_, _)
CompPaths(comps, acc) ==
    IF comps = <<>> THEN acc
    ELSE LET c == Head(comps)
             key == Get(c, "key", None)
             path_ == PyOr(Get(c, "path", None), Get(c, "name", None))
         IN CompPaths(Tail(comps),
                      IF Truthy(key)
                      THEN [k \in DOMAIN acc \cup {key} |-> IF k = key THEN path_ ELSE acc[k]]
                      ELSE acc)

\* variant: the status test forgets CLOSED
IsRemediated_resolvedOnly(issue) == Get(issue, "status", None) = Str(S_RESOLVED)

\* the status test of the issue loop
IsRemediated(issue) == Get(issue, "status", None) \in {Str(S_RESOLVED), Str(S_CLOSED)}

\* severity of an issue as load_sonarcloud records it
SonarSeverity(issue) == Get(issue, "severity", Str(S_UNKNOWN))

\* the detail record appended for one issue
SonarDetail(issue, comp_paths) ==
    LET comp_key == Get(issue, "component", None)
        path_ == IF comp_key \in DOMAIN comp_paths THEN comp_paths[comp_key] ELSE comp_key
        line == Get(issue, "line", None)
    IN [tool |-> Str(S_sonarcloud),
        severity |-> SonarSeverity(issue),
        rule_id |-> Get(issue, "rule", Str(<<>>)),
        message |-> Get(issue, "message", Str(<<>>)),
        target |-> IF Truthy(line) THEN Str(StrOf(path_) \o <<":">> \o StrOf(line)) ELSE path_,
        location |-> IF Truthy(line) THEN Str(StrOf(line)) ELSE Str(<<>>)]

RECURSIVE SonarIssueLoop(_, _, _, _)
SonarIssueLoop(issues, comp_paths, counts, details) ==
    IF issues = <<>> THEN [raised |-> FALSE, counts |-> counts, details |-> details]
    ELSE LET issue == Head(issues) IN
         IF IsRemediated(issue)
         THEN SonarIssueLoop(Tail(issues), comp_paths, counts, details)
         ELSE SonarIssueLoop(Tail(issues), comp_paths,
                             CounterAdd(counts, SonarSeverity(issue), 1),
                             Append(details, SonarDetail(issue, comp_paths)))

load_sonarcloud(file) ==
    IF file = Absent
    THEN [raised |-> FALSE, counts |-> EmptyCounter, details |-> <<>>]
    ELSE SonarIssueLoop(Get(file, "issues", List(<<>>)).items,
                        CompPaths(Get(file, "components", List(<<>>)).items, NoKeys),
                        EmptyCounter, <<>>)

(***************************************************************************)
(* analyze_security.py: ZAP loader                                         *)
(***************************************************************************)
\* code_map of load_zap
code_map == (<<"0">> :> S_INFO) @@ (<<"1">> :> S_LOW) @@ (<<"2">> :> S_MEDIUM) @@ (<<"3">> :> S_HIGH)

\* the descriptor the function reads: alert.get("risk") or alert.get("riskdesc")
RiskText(alert) == PyOr(Get(alert, "risk", None), Get(alert, "riskdesc", None))

\* variant: the numeric code is consulted before the text
zap_determine_severity_codeFirst(alert) ==
    LET risk == RiskText(alert)
        riskcode == Get(alert, "riskcode", None)
        r == Lower(risk.s)
    IN IF riskcode # None
       THEN IF StrOf(riskcode) \in DOMAIN code_map THEN code_map[StrOf(riskcode)] ELSE S_UNKNOWN
       ELSE IF IsStr(risk) /\ Contains(r, S_high) THEN S_HIGH
       ELSE IF IsStr(risk) /\ Contains(r, S_medium) THEN S_MEDIUM
       ELSE IF IsStr(risk) /\ Contains(r, S_low) THEN S_LOW
       ELSE IF IsStr(risk) /\ Contains(r, S_inform) THEN S_INFO
       ELSE S_UNKNOWN

\* variant: the substrings are tested in the order low, medium, high, inform
zap_determine_severity_lowFirst(alert) ==
    LET risk == RiskText(alert)
        riskcode == Get(alert, "riskcode", None)
        r == Lower(risk.s)
        byCode == IF riskcode # None
                  THEN IF StrOf(riskcode) \in DOMAIN code_map
                       THEN code_map[StrOf(riskcode)] ELSE S_UNKNOWN
                  ELSE S_UNKNOWN
    IN IF IsStr(risk) /\ Contains(r, S_low) THEN S_LOW
       ELSE IF IsStr(risk) /\ Contains(r, S_medium) THEN S_MEDIUM
       ELSE IF IsStr(risk) /\ Contains(r, S_high) THEN S_HIGH
       ELSE IF IsStr(risk) /\ Contains(r, S_inform) THEN S_INFO
       ELSE byCode

zap_determine_severity(alert) ==
    LET risk == RiskText(alert)
        riskcode == Get(alert, "riskcode", None)
        r == Lower(risk.s)
        byCode == IF riskcode # None
                  THEN IF StrOf(riskcode) \in DOMAIN code_map
                       THEN code_map[StrOf(riskcode)] ELSE S_UNKNOWN
                  ELSE S_UNKNOWN
    IN IF IsStr(risk) /\ Contains(r, S_high) THEN S_HIGH
       ELSE IF IsStr(risk) /\ Contains(r, S_medium) THEN S_MEDIUM
       ELSE IF IsStr(risk) /\ Contains(r, S_low) THEN S_LOW
       ELSE IF IsStr(risk) /\ Contains(r, S_inform) THEN S_INFO
       ELSE byCode

\* representative URL; inst[0].get raises when the first instance is no dict
zap_get_alert_url(alert) ==
    LET url == Get(alert, "url", Str(<<>>))
        inst == PyOr(Get(alert, "instances", None), List(<<>>))
    IN IF Truthy(inst) /\ IsList(inst)
       THEN IF IsDict(inst.items[1])
            THEN [raised |-> FALSE, url |-> Get(inst.items[1], "uri", url)]
            ELSE Raised
       ELSE [raised |-> FALSE, url |-> url]

ZapDetail(alert, url) ==
    [tool |-> Str(S_zap),
     severity |-> Str(zap_determine_severity(alert)),
     rule_id |-> Get(alert, "pluginId", Str(<<>>)),
     message |-> Get(alert, "name", Str(<<>>)),
     target |-> url,
     location |-> Str(<<>>)]

\* for alert in site.get("alerts") or []: alert.get raises when alert is no dict
RECURSIVE ZapAlertLoop(_, _, _)
ZapAlertLoop(alerts, counts, details) ==
    IF alerts = <<>> THEN [raised |-> FALSE, counts |-> counts, details |-> details]
    ELSE LET alert == Head(alerts) IN
         IF ~IsDict(alert) THEN Raised
         ELSE LET u == zap_get_alert_url(alert) IN
              IF u.raised THEN Raised
              ELSE ZapAlertLoop(Tail(alerts),
                                CounterAdd(counts, Str(zap_determine_severity(alert)), 1),
                                Append(details, ZapDetail(alert, u.url)))

\* for site in sites: site.get raises when site is no dict, and the iteration of
\* a truthy alerts value that is no list raises as well
RECURSIVE ZapSiteLoop(_, _, _)
ZapSiteLoop(sites, counts, details) ==
    IF sites = <<>> THEN [raised |-> FALSE, counts |-> counts, details |-> details]
    ELSE LET site == Head(sites) IN
         IF ~IsDict(site) THEN Raised
         ELSE LET alerts == PyOr(Get(site, "alerts", None), List(<<>>)) IN
              IF ~IsList(alerts) THEN Raised
              ELSE LET r == ZapAlertLoop(alerts.items, counts, details) IN
                   IF r.raised THEN Raised
                   ELSE ZapSiteLoop(Tail(sites), r.counts, r.details)

load_zap(file) ==
    IF file = Absent
    THEN [raised |-> FALSE, counts |-> EmptyCounter, details |-> <<>>]
    ELSE LET sites == PyOr(PyOr(Get(file, "site", None), Get(file, "sites", None)), List(<<>>))
         IN IF ~IsList(sites) THEN Raised
            ELSE ZapSiteLoop(sites.items, EmptyCounter, <<>>)

(***************************************************************************)
(* analyze_security.py: the two CSV tables                                 *)
(***************************************************************************)
\* what csv.writer puts in a cell: None is written as the empty string
CsvCell(v) == IF v = None THEN <<>> ELSE StrOf(v)

\* a table on disk: the data rows as csv.DictReader gives them back
File(rows) == [t |-> "file", rows |-> rows]

\* a < b as sorted() compares two Counter keys of the same type
KeyLess(a, b) == IF a.t = "str" THEN StrLess(a.s, b.s) ELSE a.n < b.n

RECURSIVE SortedKeys(_)
SortedKeys(S) ==
    IF S = {} THEN <<>>
    ELSE LET m == CHOOSE x \in S : \A y \in S \ {x} : KeyLess(x, y)
         IN <<m>> \o SortedKeys(S \ {m})

\* sorted(severities) raises TypeError when keys of different types are compared
SortRaises(S) == \E a, b \in S : a.t # b.t

\* the rows of one tool, one per severity of the union
ToolRows(tool, counts, severities) ==
    [i \in 1..Len(severities) |->
        [tool |-> tool,
         severity |-> CsvCell(severities[i]),
         count |-> CsvCell(PyInt(CounterGet(counts, severities[i])))]]

\* all_tools = {"sonarcloud": sonar_counts, "zap": zap_counts}, in insertion order
write_csv(sonar_counts, zap_counts) ==
    LET severities == DOMAIN sonar_counts \cup DOMAIN zap_counts
    IN IF SortRaises(severities) THEN Raised
       ELSE [raised |-> FALSE,
             file |-> File(ToolRows(S_sonarcloud, sonar_counts, SortedKeys(severities))
                           \o ToolRows(S_zap, zap_counts, SortedKeys(severities)))]

\* (d.get("message", "") or "").replace("\n", " ") raises when the message is a
\* truthy value that is no str
MessageRaises(d) == Truthy(d.message) /\ ~IsStr(d.message)

DetailRow(d) ==
    [tool |-> CsvCell(d.tool),
     severity |-> CsvCell(d.severity),
     rule_id |-> CsvCell(d.rule_id),
     target |-> CsvCell(d.target),
     location |-> CsvCell(d.location),
     message |-> ReplaceChar(PyOr(d.message, Str(<<>>)).s, "\n", " ")]

write_detailed_csv(all_details) ==
    IF \E i \in 1..Len(all_details) : MessageRaises(all_details[i]) THEN Raised
    ELSE [raised |-> FALSE,
          file |-> File([i \in 1..Len(all_details) |-> DetailRow(all_details[i])])]

\* SEVERITY_ORDER, the canonical severity labels
SEVERITY_ORDER ==
    <<S_BLOCKER, S_CRITICAL, S_MAJOR, S_HIGH, S_MEDIUM, S_LOW, S_INFO, S_UNKNOWN>>

(***************************************************************************)
(* quality_gate.py                                                         *)
(***************************************************************************)
BLOCKING_SEVERITIES == <<S_CRITICAL, S_HIGH>>

ALLOWED_ZAP_HIGH_MESSAGES == <<MSG_ServerLeaks, MSG_CSP, MSG_GetForPost>>

\* int(text), with the ValueError handler of load_counts_from_csv giving 0
ParseCount(s) ==
    IF IsDigits(s) THEN DigitsToNat(s)
    ELSE IF s # <<>> /\ s[1] = "-" /\ IsDigits(Tail(s)) THEN 0 - DigitsToNat(Tail(s))
    ELSE 0

\* load_counts_from_csv when the summary table does not exist: print and sys.exit(1)
NoCsvExit == [status |-> 1, message |-> "No CSV file"]

RECURSIVE CountRows(_, _)
CountRows(rows, counts_by_sev) ==
    IF rows = <<>> THEN counts_by_sev
    ELSE CountRows(Tail(rows),
                   CounterAdd(counts_by_sev, Upper(Head(rows).severity),
                              ParseCount(Head(rows).count)))

\* the Counter of an existing summary table (a missing one ends the process)
load_counts_from_csv(csv) == CountRows(csv.rows, EmptyCounter)

\* the test of one detail row
IsAllowedException(row) ==
    /\ row.tool = S_zap
    /\ Upper(row.severity) = S_HIGH
    /\ \E k \in 1..Len(ALLOWED_ZAP_HIGH_MESSAGES) : Contains(row.message, ALLOWED_ZAP_HIGH_MESSAGES[k])

RECURSIVE SubtractLoop(_, _)
SubtractLoop(rows, count) ==
    IF rows = <<>> THEN count
    ELSE SubtractLoop(Tail(rows), IF IsAllowedException(Head(rows)) THEN count - 1 ELSE count)

Max(a, b) == IF a >= b THEN a ELSE b

\* variant: the result is not clamped at zero
subtract_allowed_exceptions_noFloor(detailed, original_count) ==
    IF original_count <= 0 THEN original_count
    ELSE IF detailed = Absent THEN original_count
    ELSE SubtractLoop(detailed.rows, original_count)

subtract_allowed_exceptions(detailed, original_count) ==
    IF original_count <= 0 THEN original_count
    ELSE IF detailed = Absent THEN original_count
    ELSE Max(SubtractLoop(detailed.rows, original_count), 0)

RECURSIVE SumBlocking(_, _)
SumBlocking(sevs, counts_by_sev) ==
    IF sevs = <<>> THEN 0
    ELSE CounterGet(counts_by_sev, Head(sevs)) + SumBlocking(Tail(sevs), counts_by_sev)

\* blocking_total of main after the exception filter
BlockingTotal(csv, detailed) ==
    subtract_allowed_exceptions(detailed, SumBlocking(BLOCKING_SEVERITIES, load_counts_from_csv(csv)))

\* variant: a blocking total of one still passes
GateDecision_offByOne(blocking_total) ==
    IF blocking_total > 1
    THEN [status |-> 1, message |-> "Quality Gate FAILED"]
    ELSE [status |-> 0, message |-> "Quality Gate PASSED"]

\* variant: a policy failure exits with a status of its own
GateDecision_exit2(blocking_total) ==
    IF blocking_total > 0
    THEN [status |-> 2, message |-> "Quality Gate FAILED"]
    ELSE [status |-> 0, message |-> "Quality Gate PASSED"]

\* the branch main takes: exit status and the line it prints
GateDecision(blocking_total) ==
    IF blocking_total > 0
    THEN [status |-> 1, message |-> "Quality Gate FAILED"]
    ELSE [status |-> 0, message |-> "Quality Gate PASSED"]

(***************************************************************************)
(* Bounds and the input reports                                            *)
(***************************************************************************)
\* issues plus alerts in the two reports of one run
MaxItems == 2

\* largest blocking total handed to the exception filter on its own
MaxX == 3

\* rows of a detail table handed to the exception filter on its own
MaxRows == 3

SeqsOfLen(S, n) == [1..n -> S]

SeqsUpTo(S, n) == UNION {SeqsOfLen(S, k) : k \in 0..n}

\* data["components"]: one component with a path, one with neither path nor name
Components ==
    <<Dict([key |-> Str(T_k1), path |-> Str(T_path)]), Dict([key |-> Str(T_k2)])>>

Issues ==
    { Dict([status |-> Str(T_OPEN), severity |-> Str(S_CRITICAL), rule |-> Str(T_rule),
            message |-> Str(T_SqlInjection), component |-> Str(T_k1), line |-> PyInt(7)]),
      Dict([status |-> Str(S_RESOLVED), severity |-> Str(S_CRITICAL), component |-> Str(T_k1)]),
      Dict([status |-> Str(S_CLOSED), severity |-> Str(S_HIGH), component |-> Str(T_k3)]),
      Dict([severity |-> Str(T_MINOR), component |-> Str(T_k2), line |-> PyInt(12)]),
      Dict([status |-> Str(T_OPEN), severity |-> None]),
      Dict([status |-> Str(T_OPEN), severity |-> Str(T_critical), component |-> Str(T_k3)]),
      Dict([status |-> Str(T_OPEN), severity |-> Str(S_HIGH), message |-> Str(MSG_GetForPost)]),
      Dict([status |-> Str(T_OPEN), severity |-> PyInt(3)]),
      Dict(NoKeys) }

SonarReport(issues) == Dict([components |-> List(Components), issues |-> List(issues)])

Alerts ==
    { Dict([name |-> Str(T_SqlInjection), pluginId |-> Str(T_plugin), risk |-> Str(T_High),
            riskcode |-> Str(<<"3">>), url |-> Str(T_urlB),
            instances |-> List(<<Dict([uri |-> Str(T_urlA)])>>)]),
      Dict([name |-> Str(MSG_ServerLeaks), riskdesc |-> Str(T_HighConfirmed),
            riskcode |-> Str(<<"1">>)]),
      Dict([name |-> Str(T_XGetForPost), risk |-> Str(T_High)]),
      Dict([name |-> Str(T_getforpost), risk |-> Str(T_High)]),
      Dict([name |-> Str(T_GetForNlPost), risk |-> Str(T_High)]),
      Dict([name |-> Str(MSG_CSP), risk |-> Str(T_MediumLow), riskcode |-> Str(<<"2">>)]),
      Dict([name |-> None, riskcode |-> PyInt(3)]),
      Dict([name |-> Str(T_SqlInjection), risk |-> Str(T_Severe), riskcode |-> Str(<<"3">>),
            instances |-> Dict([uri |-> Str(T_urlA)])]),
      Dict([name |-> Str(T_SqlInjection), risk |-> Str(T_Low), instances |-> List(<<Str(T_urlA)>>)]),
      Str(T_SqlInjection),
      Dict(NoKeys) }

\* a ZAP report with its sites under "site" or under "sites"
ZapReport(key, alerts) ==
    Dict((key :> List(<<Dict([alerts |-> List(alerts)])>>)))

\* reports whose site value is not a list of objects, and one with no site at all
OddZapReports ==
    { Dict([site |-> Dict([alerts |-> List(<<>>)])]),
      Dict([sites |-> List(<<Str(T_urlA)>>)]),
      Dict([site |-> List(<<>>), sites |-> List(<<Dict([alerts |-> None])>>)]),
      Dict(NoKeys) }

SonarFiles(n) == {SonarReport(is) : is \in SeqsOfLen(Issues, n)}

ZapFiles(n) ==
    {ZapReport(key, as) : key \in {"site", "sites"}, as \in SeqsUpTo(Alerts, n)} \cup OddZapReports

(***************************************************************************)
(* State                                                                   *)
(***************************************************************************)
VARIABLES
    sonar_file,     \* reports/sonarcloud-report/sonarcloud.json, or Absent
    zap_file,       \* reports/zap-report/report_json.json, or Absent
    pc,             \* position of analyze_security.main
    sonar_counts,   \* Counter returned by load_sonarcloud
    sonar_details,  \* detail records returned by load_sonarcloud
    zap_counts,     \* Counter returned by load_zap
    zap_details,    \* detail records returned by load_zap
    metrics_csv,    \* metrics_output/metrics.csv, or Absent
    detailed_csv,   \* metrics_output/metrics_detailed.csv, or Absent
    gate,           \* the quality_gate.py process: ready, or exited with its outcome
    sev_alert,      \* argument of a call of _zap_determine_severity on its own
    sev_result,     \* its result, None before the call
    flt_x,          \* original_count of a call of subtract_allowed_exceptions on its own
    flt_table,      \* the detail table of that call
    flt_result      \* its result, None before the call

vars == <<sonar_file, zap_file, pc, sonar_counts, sonar_details, zap_counts, zap_details,
          metrics_csv, detailed_csv, gate, sev_alert, sev_result, flt_x, flt_table, flt_result>>

pipelineVars == <<sonar_file, zap_file, pc, sonar_counts, sonar_details, zap_counts,
                  zap_details, metrics_csv, detailed_csv, gate>>

callVars == <<sev_alert, sev_result, flt_x, flt_table, flt_result>>

\* a fresh checkout: no table written yet, no process started
PipelineStart ==
    /\ pc = "load_sonarcloud"
    /\ sonar_counts = EmptyCounter
    /\ sonar_details = <<>>
    /\ zap_counts = EmptyCounter
    /\ zap_details = <<>>
    /\ metrics_csv = Absent
    /\ detailed_csv = Absent
    /\ gate = [pc |-> "ready"]

NoCalls ==
    /\ sev_alert = None
    /\ sev_result = None
    /\ flt_x = 0
    /\ flt_table = Absent
    /\ flt_result = None

Init ==
    /\ \E n \in 0..MaxItems :
          /\ sonar_file \in {Absent} \cup SonarFiles(n)
          /\ zap_file \in {Absent} \cup ZapFiles(MaxItems - n)
    /\ PipelineStart
    /\ NoCalls

(***************************************************************************)
(* analyze_security.main, one step per call                                *)
(***************************************************************************)
LoadSonarcloud ==
    /\ pc = "load_sonarcloud"
    /\ LET r == load_sonarcloud(sonar_file) IN
          /\ sonar_counts' = r.counts
          /\ sonar_details' = r.details
    /\ pc' = "load_zap"
    /\ UNCHANGED <<sonar_file, zap_file, zap_counts, zap_details, metrics_csv, detailed_csv,
                   gate, callVars>>

LoadZap ==
    /\ pc = "load_zap"
    /\ LET r == load_zap(zap_file) IN
          IF r.raised
          THEN pc' = "raised" /\ UNCHANGED <<zap_counts, zap_details>>
          ELSE pc' = "write_csv" /\ zap_counts' = r.counts /\ zap_details' = r.details
    /\ UNCHANGED <<sonar_file, zap_file, sonar_counts, sonar_details, metrics_csv,
                   detailed_csv, gate, callVars>>

WriteCsv ==
    /\ pc = "write_csv"
    /\ LET r == write_csv(sonar_counts, zap_counts) IN
          IF r.raised
          THEN pc' = "raised" /\ UNCHANGED metrics_csv
          ELSE pc' = "write_detailed_csv" /\ metrics_csv' = r.file
    /\ UNCHANGED <<sonar_file, zap_file, sonar_counts, sonar_details, zap_counts,
                   zap_details, detailed_csv, gate, callVars>>

WriteDetailedCsv ==
    /\ pc = "write_detailed_csv"
    /\ LET r == write_detailed_csv(sonar_details \o zap_details) IN
          IF r.raised
          THEN pc' = "raised" /\ UNCHANGED detailed_csv
          ELSE pc' = "done" /\ detailed_csv' = r.file
    /\ UNCHANGED <<sonar_file, zap_file, sonar_counts, sonar_details, zap_counts,
                   zap_details, metrics_csv, gate, callVars>>

(***************************************************************************)
(* quality_gate.main, run once the analysis process has ended              *)
(***************************************************************************)
GateMain ==
    /\ pc \in {"done", "raised"}
    /\ gate.pc = "ready"
    /\ gate' = IF metrics_csv = Absent
               THEN [pc |-> "exited", status |-> NoCsvExit.status,
                     message |-> NoCsvExit.message, computed |-> FALSE, blocking_total |-> 0]
               ELSE LET blocking_total == BlockingTotal(metrics_csv, detailed_csv)
                        d == GateDecision(blocking_total)
                    IN [pc |-> "exited", status |-> d.status, message |-> d.message,
                        computed |-> TRUE, blocking_total |-> blocking_total]
    /\ UNCHANGED <<sonar_file, zap_file, pc, sonar_counts, sonar_details, zap_counts,
                   zap_details, metrics_csv, detailed_csv, callVars>>

Next == LoadSonarcloud \/ LoadZap \/ WriteCsv \/ WriteDetailedCsv \/ GateMain

Spec == Init /\ [][Next]_vars

(***************************************************************************)
(* _zap_determine_severity called on its own, over a space of alerts       *)
(***************************************************************************)
NotGiven == [t |-> "notgiven"]

RiskOptions == {NotGiven, None, Str(<<>>), Str(T_High), Str(T_Severe), Str(T_LowHigh), PyInt(3)}

RiskDescOptions ==
    {NotGiven, Str(T_HighConfirmed), Str(T_MediumLow), Str(T_Low), Str(T_Informational),
     Str(T_HIGH_upper)}

RiskCodeOptions ==
    {NotGiven, None, Str(<<"0">>), Str(<<"1">>), Str(<<"2">>), Str(<<"3">>), PyInt(2), Str(T_Seven)}

\* the alert dict with the given fields, a field that is NotGiven being left out
AlertOf(risk, riskdesc, riskcode) ==
    LET f == [risk |-> risk, riskdesc |-> riskdesc, riskcode |-> riskcode]
    IN Dict([k \in {x \in DOMAIN f : f[x] # NotGiven} |-> f[k]])

SeverityAlerts ==
    {AlertOf(a, b, c) : a \in RiskOptions, b \in RiskDescOptions, c \in RiskCodeOptions}

InitSeverity ==
    /\ sonar_file = Absent
    /\ zap_file = Absent
    /\ PipelineStart
    /\ sev_alert \in SeverityAlerts
    /\ sev_result = None
    /\ flt_x = 0
    /\ flt_table = Absent
    /\ flt_result = None

DetermineSeverity ==
    /\ sev_alert # None
    /\ sev_result = None
    /\ sev_result' = Str(zap_determine_severity(sev_alert))
    /\ UNCHANGED <<pipelineVars, sev_alert, flt_x, flt_table, flt_result>>

SpecSeverity == InitSeverity /\ [][DetermineSeverity]_vars

(***************************************************************************)
(* subtract_allowed_exceptions called on its own, over detail tables that  *)
(* write_detailed_csv can write                                            *)
(***************************************************************************)
\* the detail rows the analysis writes for one-alert and one-issue reports
FilterRows ==
    {DetailRow(d) :
        d \in {load_zap(ZapReport("site", <<a>>)).details[1] :
                 a \in {x \in Alerts : ~load_zap(ZapReport("site", <<x>>)).raised}}
              \cup {load_sonarcloud(SonarReport(<<i>>)).details[1] :
                      i \in {x \in Issues : "message" \in DOMAIN x.d}}}

InitFilter ==
    /\ sonar_file = Absent
    /\ zap_file = Absent
    /\ PipelineStart
    /\ sev_alert = None
    /\ sev_result = None
    /\ flt_x \in 0..MaxX
    /\ flt_table \in {Absent} \cup {File(rows) : rows \in SeqsUpTo(FilterRows, MaxRows)}
    /\ flt_result = None

FilterCall ==
    /\ flt_result = None
    /\ flt_result' = PyInt(subtract_allowed_exceptions(flt_table, flt_x))
    /\ UNCHANGED <<pipelineVars, sev_alert, sev_result, flt_x, flt_table>>

SpecFilter == InitFilter /\ [][FilterCall]_vars

(***************************************************************************)
(* Properties                                                              *)
(***************************************************************************)
GateComputed == gate.pc = "exited" /\ gate.computed

ReportIssues == Get(sonar_file, "issues", List(<<>>)).items

\* C1: whenever the gate has computed its adjusted blocking_total, it exits with
\* status 0 exactly when that total is zero and with a non-zero status otherwise.
C1_GatePassesIffZero ==
    GateComputed =>
        /\ gate.status = 0 <=> gate.blocking_total = 0
        /\ gate.status # 0 <=> gate.blocking_total # 0

\* the gate passed although the summary table counts a ZAP HIGH finding
C1_Witness ==
    /\ GateComputed
    /\ gate.status = 0
    /\ \E i \in 1..Len(metrics_csv.rows) :
          /\ metrics_csv.rows[i].tool = S_zap
          /\ metrics_csv.rows[i].severity = S_HIGH
          /\ metrics_csv.rows[i].count = <<"1">>

CanonicalSeverities == {Str(SEVERITY_ORDER[i]) : i \in 1..Len(SEVERITY_ORDER)}

\* C2: every Finding of either extractor, and every key of the counts they
\* return, carries one of the canonical severity labels.
C2_SeverityCanonical ==
    /\ \A i \in 1..Len(sonar_details) : sonar_details[i].severity \in CanonicalSeverities
    /\ \A i \in 1..Len(zap_details) : zap_details[i].severity \in CanonicalSeverities
    /\ DOMAIN sonar_counts \subseteq CanonicalSeverities
    /\ DOMAIN zap_counts \subseteq CanonicalSeverities

ClaimRemediated(issue) ==
    "status" \in DOMAIN issue.d /\ issue.d.status \in {Str(S_RESOLVED), Str(S_CLOSED)}

OpenIssues == SelectSeq(ReportIssues, LAMBDA i : ~ClaimRemediated(i))

RECURSIVE CounterTotal(_)
CounterTotal(c) ==
    IF DOMAIN c = {} THEN 0
    ELSE LET k == CHOOSE x \in DOMAIN c : TRUE
         IN c[k] + CounterTotal([y \in DOMAIN c \ {k} |-> c[y]])

\* C3: load_sonarcloud produces no Finding and no count for a RESOLVED or CLOSED
\* issue and exactly one Finding and one count for every other issue, in order;
\* and with no ZAP report, a report whose only issue is CRITICAL passes the gate
\* exactly when that issue is RESOLVED or CLOSED.
C3_RemediatedExcluded ==
    /\ (pc # "load_sonarcloud" /\ sonar_file # Absent) =>
          /\ Len(sonar_details) = Len(OpenIssues)
          /\ CounterTotal(sonar_counts) = Len(OpenIssues)
          /\ \A k \in 1..Len(OpenIssues) :
                /\ sonar_details[k].severity = Get(OpenIssues[k], "severity", Str(S_UNKNOWN))
                /\ sonar_details[k].message = Get(OpenIssues[k], "message", Str(<<>>))
          /\ \A sev \in DOMAIN sonar_counts :
                sonar_counts[sev] =
                    Cardinality({k \in 1..Len(OpenIssues) :
                                    Get(OpenIssues[k], "severity", Str(S_UNKNOWN)) = sev})
    /\ ( /\ gate.pc = "exited"
         /\ sonar_file # Absent
         /\ zap_file = Absent
         /\ Len(ReportIssues) = 1
         /\ Get(ReportIssues[1], "severity", None) = Str(S_CRITICAL) )
       => (gate.status = 0 <=> ClaimRemediated(ReportIssues[1]))

\* a report of one CLOSED issue and one open issue after load_sonarcloud returned
C3_Witness ==
    /\ pc = "load_zap"
    /\ sonar_file # Absent
    /\ Len(ReportIssues) = 2
    /\ Get(ReportIssues[1], "status", None) = Str(S_CLOSED)
    /\ ~ClaimRemediated(ReportIssues[2])
    /\ Len(sonar_details) = 1

ClaimMatch(row) ==
    /\ row.tool = S_zap
    /\ row.severity = S_HIGH
    /\ \/ Contains(row.message, MSG_ServerLeaks)
       \/ Contains(row.message, MSG_CSP)
       \/ Contains(row.message, MSG_GetForPost)

ClaimMatches(table) == Cardinality({i \in 1..Len(table.rows) : ClaimMatch(table.rows[i])})

\* C4: for a non-negative total x and an available detail table the exception
\* filter returns max(x - m, 0), m being the number of rows of tool zap and
\* severity HIGH whose message contains an allow-listed phrase.
C4_FilterResult ==
    (flt_result # None /\ flt_table # Absent) =>
        flt_result.n = (IF flt_x - ClaimMatches(flt_table) > 0
                        THEN flt_x - ClaimMatches(flt_table) ELSE 0)

\* more matching rows than the positive total: the result is clamped to zero,
\* beside a sonarcloud HIGH row with an allow-listed message that does not count
C4_Witness ==
    /\ flt_result # None
    /\ flt_table # Absent
    /\ flt_x = 1
    /\ ClaimMatches(flt_table) = 2
    /\ \E i \in 1..Len(flt_table.rows) :
          flt_table.rows[i].tool = S_sonarcloud /\ flt_table.rows[i].message = MSG_GetForPost
    /\ flt_result.n = 0

\* p occurs in s when case is ignored
ContainsCI(s, p) ==
    \E i \in 0..(Len(s) - Len(p)) : \A j \in 1..Len(p) : LowerChar(s[i + j]) = LowerChar(p[j])

\* the alert with its riskcode replaced by c, or removed when c is NotGiven
WithCode(alert, c) ==
    Dict([k \in (DOMAIN alert.d \ {"riskcode"}) \cup (IF c = NotGiven THEN {} ELSE {"riskcode"})
            |-> IF k = "riskcode" THEN c ELSE alert.d[k]])

SameForEveryCode ==
    \A c \in RiskCodeOptions : zap_determine_severity(WithCode(sev_alert, c)) = sev_result.s

\* a non-empty string under risk or under riskdesc
TextPresent(alert) ==
    \E k \in {"risk", "riskdesc"} : IsStr(Get(alert, k, None)) /\ Get(alert, k, None).s # <<>>

\* the descriptor that is read: risk unless it is empty or null, else riskdesc
ClaimText(alert) ==
    IF "risk" \in DOMAIN alert.d /\ Truthy(alert.d.risk) THEN alert.d.risk
    ELSE Get(alert, "riskdesc", None)

Recognised(alert) ==
    /\ IsStr(ClaimText(alert))
    /\ \E w \in {S_high, S_medium, S_low, S_inform} : ContainsCI(ClaimText(alert).s, w)

\* C5 as stated: whenever a textual descriptor (risk or riskdesc) is present the
\* severity is the same for every value of riskcode, absent included.
C5_TextAloneWhenPresent == (sev_result # None /\ TextPresent(sev_alert)) => SameForEveryCode

\* C5 amended: whenever the descriptor that is read (risk unless empty or null,
\* else riskdesc) is a string containing high, medium, low or inform in any case,
\* the severity is the same for every value of riskcode, absent included, and a
\* text containing "high" with riskcode 1 yields HIGH.
C5_TextAloneWhenRecognised ==
    (sev_result # None /\ Recognised(sev_alert)) =>
        /\ SameForEveryCode
        /\ ( /\ ContainsCI(ClaimText(sev_alert).s, S_high)
             /\ Get(sev_alert, "riskcode", None) = Str(<<"1">>) ) => sev_result = Str(S_HIGH)

\* riskdesc "High (confirmed)" with riskcode "1" was normalised to HIGH
C5_Witness ==
    /\ sev_result = Str(S_HIGH)
    /\ sev_alert = AlertOf(NotGiven, Str(T_HighConfirmed), Str(<<"1">>))

\* C9: for a textual descriptor the substrings high, medium, low, inform are
\* tested in that order without regard to case, and the first match decides.
C9_FirstMatchWins ==
    (sev_result # None /\ IsStr(ClaimText(sev_alert))) =>
        LET t == ClaimText(sev_alert).s IN
        /\ ContainsCI(t, S_high) => sev_result = Str(S_HIGH)
        /\ (~ContainsCI(t, S_high) /\ ContainsCI(t, S_medium)) => sev_result = Str(S_MEDIUM)
        /\ (~ContainsCI(t, S_high) /\ ~ContainsCI(t, S_medium) /\ ContainsCI(t, S_low))
              => sev_result = Str(S_LOW)
        /\ ( /\ ~ContainsCI(t, S_high)
             /\ ~ContainsCI(t, S_medium)
             /\ ~ContainsCI(t, S_low)
             /\ ContainsCI(t, S_inform) ) => sev_result = Str(S_INFO)

\* "Low (High)" holds both low and high and was normalised to HIGH
C9_Witness ==
    /\ sev_result = Str(S_HIGH)
    /\ ClaimText(sev_alert) = Str(T_LowHigh)

\* the sites load_zap iterates, when that value is a list
ClaimSites ==
    IF zap_file = Absent THEN <<>>
    ELSE LET v == PyOr(Get(zap_file, "site", None), Get(zap_file, "sites", None))
         IN IF IsList(v) THEN v.items ELSE <<>>

RECURSIVE AlertsIn(_)
AlertsIn(sites) ==
    IF sites = <<>> THEN 0
    ELSE LET as == Get(Head(sites), "alerts", None)
         IN (IF IsList(as) THEN Len(as.items) ELSE 0) + AlertsIn(Tail(sites))

NumAlerts == AlertsIn(ClaimSites)

\* C6: on a parseable report with missing or oddly typed fields the loaders and
\* the writing of the tables never raise, and one Finding is produced for every
\* alert and for every issue that is not RESOLVED or CLOSED.
C6_NeverRaises ==
    /\ pc # "raised"
    /\ (pc = "done" /\ sonar_file # Absent) => Len(sonar_details) = Len(OpenIssues)
    /\ pc = "done" => Len(zap_details) = NumAlerts

\* C7: an absent report gives empty counts and no Finding, the analysis still
\* completes and writes both tables, and with both reports absent the count table
\* has no data rows, blocking_total is 0 and the gate passes.
C7_MissingReportTolerated ==
    /\ (sonar_file = Absent /\ pc # "load_sonarcloud") =>
          (sonar_counts = EmptyCounter /\ sonar_details = <<>>)
    /\ (zap_file = Absent /\ pc \notin {"load_sonarcloud", "load_zap"}) =>
          (zap_counts = EmptyCounter /\ zap_details = <<>>)
    /\ (sonar_file = Absent \/ zap_file = Absent) => pc # "raised"
    /\ ((sonar_file = Absent \/ zap_file = Absent) /\ pc = "done") =>
          (metrics_csv # Absent /\ detailed_csv # Absent)
    /\ (sonar_file = Absent /\ zap_file = Absent /\ gate.pc = "exited") =>
          /\ metrics_csv = File(<<>>)
          /\ gate.computed
          /\ gate.blocking_total = 0
          /\ gate.status = 0

\* C8 as stated: a policy failure never exits with the status of a missing
\* summary table.
C8_DistinctExitStatus ==
    (GateComputed /\ gate.blocking_total > 0) => gate.status # NoCsvExit.status

\* C8 amended: a policy failure and a missing summary table exit with the same
\* non-zero status 1 and differ only in the line printed.
C8_DistinctMessageOnly ==
    /\ (GateComputed /\ gate.blocking_total > 0) =>
          /\ gate.status = 1
          /\ gate.status = NoCsvExit.status
          /\ gate.message = "Quality Gate FAILED"
          /\ gate.message # NoCsvExit.message
    /\ (gate.pc = "exited" /\ ~gate.computed) =>
          /\ metrics_csv = Absent
          /\ gate.status = 1
          /\ gate.message = "No CSV file"

\* the gate failed on policy: one blocking finding left after the filter
C8_Witness == GateComputed /\ gate.blocking_total = 1 /\ gate.status = 1

Findings == sonar_details \o zap_details

\* the message of a Finding as the detail table holds it: newlines are spaces
TableMessage(f) ==
    IF IsStr(f.message)
    THEN [i \in 1..Len(f.message.s) |-> IF f.message.s[i] = "\n" THEN " " ELSE f.message.s[i]]
    ELSE <<>>

ClaimExempt(f) ==
    /\ f.tool = Str(S_zap)
    /\ f.severity = Str(S_HIGH)
    /\ \/ Contains(TableMessage(f), MSG_ServerLeaks)
       \/ Contains(TableMessage(f), MSG_CSP)
       \/ Contains(TableMessage(f), MSG_GetForPost)

NonExemptBlocking ==
    Cardinality({i \in 1..Len(Findings) :
                    /\ Findings[i].severity \in {Str(S_CRITICAL), Str(S_HIGH)}
                    /\ ~ClaimExempt(Findings[i])})

\* C10: after an analysis run and a gate run on its tables, the adjusted
\* blocking_total equals the number of Findings of severity CRITICAL or HIGH
\* that are not exempt, and the gate passes exactly when there is none.
C10_BlockingIsNonExempt ==
    (pc = "done" /\ GateComputed) =>
        /\ gate.blocking_total = NonExemptBlocking
        /\ gate.status = 0 <=> NonExemptBlocking = 0
================================================================================
